---- MODULE Spec2Model ----
(***************************************************************************)
(* The singly linked stack of src/src/second.rs (List<T>, its three        *)
(* iterators and its destructor) as a state machine over an explicit heap  *)
(* of nodes, with the prototype List of src/src/first.rs fed the same      *)
(* calls beside it.                                                        *)
(***************************************************************************)
EXTENDS Integers, Sequences, FiniteSets, TLC

\* ------------------------------------------------------------------ bounds
\* Nodes one list may allocate during its lifetime (the number of pushes).
MaxNodes == 3
\* Element values are 1..MaxVal.
MaxVal == 2

Nodes == 1..MaxNodes
Values == 1..MaxVal
\* The empty link (Option::None of Link<T>).
Null == 0
\* The content of a slot whose element has been moved out or never written.
NoVal == 0

VARIABLES
    head,       \* List.head: Null or the first node
    elem,       \* Node.elem of every node
    next,       \* Node.next of every node
    alloc,      \* "free" (never allocated), "live" or "freed", per node
    relCount,   \* how many times each node's storage has been released
    relNext,    \* the next link a node held when its Box was dropped
    pc,         \* what the owner of the list is doing
    cursor,     \* Iter.next / IterMut.next
    yielded,    \* what the live iterator has returned so far
    snapNodes,  \* the chain when the iterator was made or the drop began
    snapElems,  \* its elements at that moment (not kept for an IterMut)
    cur_link,   \* the loop variable of Drop::drop
    dropIters,  \* iterations of the loop of Drop::drop so far
    dropDepth,  \* deepest nesting of node destruction during Drop::drop
    lastOp,     \* the operation that made the last step
    arg,        \* its argument (the value pushed or written)
    idx,        \* which yielded reference was written through
    ret,        \* what it returned
    phase,      \* "push", "pop" or "other": the shape of the history so far
    pushLog,    \* the values pushed onto the new list, while phase = "push"
    popLog,     \* the results of the pops that followed them
    detached,   \* the node pop_node returned, while its caller holds it
    proto,      \* the prototype List of first.rs, fed the same calls
    synced      \* whether every call so far was one the prototype offers

vars == <<head, elem, next, alloc, relCount, relNext, pc, cursor, yielded,
          snapNodes, snapElems, cur_link, dropIters, dropDepth, lastOp, arg,
          idx, ret, phase, pushLog, popLog, detached, proto, synced>>

\* ------------------------------------------------------------ Option<...>
None == [some |-> FALSE, val |-> NoVal, ref |-> Null]
SomeVal(v) == [some |-> TRUE, val |-> v, ref |-> Null]
SomeRef(n) == [some |-> TRUE, val |-> NoVal, ref |-> n]

\* -------------------------------------------------------------- the heap
Heap ==
    [head |-> head, elem |-> elem, next |-> next, alloc |-> alloc,
     relCount |-> relCount, relNext |-> relNext]

EmptyHeap ==
    [head |-> Null,
     elem |-> [n \in Nodes |-> NoVal],
     next |-> [n \in Nodes |-> Null],
     alloc |-> [n \in Nodes |-> "free"],
     relCount |-> [n \in Nodes |-> 0],
     relNext |-> [n \in Nodes |-> Null]]

\* List::new
new == EmptyHeap

\* Box::new: the storage handed out; addresses grow with every allocation.
BoxNew(h) == CHOOSE n \in Nodes :
    /\ h.alloc[n] = "free"
    /\ \A m \in Nodes : h.alloc[m] = "free" => n <= m

CanAlloc(h) == \E n \in Nodes : h.alloc[n] = "free"

\* A Box whose fields have all been moved out is deallocated; nothing in it
\* is dropped.
FreeBox(h, n) ==
    [h EXCEPT !.alloc[n] = "freed", !.relCount[n] = @ + 1,
              !.elem[n] = NoVal, !.next[n] = Null]

\* The drop glue of Box<Node<T>>: drop the fields (the next link, and with it
\* the rest of the chain, by a nested call), then release the storage.
RECURSIVE DropBox(_, _)
DropBox(h, n) ==
    LET succ == h.next[n]
        inner == IF succ = Null THEN [heap |-> h, depth |-> 0]
                                ELSE DropBox(h, succ)
        h1 == inner.heap
    IN  [heap |-> [h1 EXCEPT !.alloc[n] = "freed", !.relCount[n] = @ + 1,
                             !.relNext[n] = succ,
                             !.elem[n] = NoVal, !.next[n] = Null],
         depth |-> inner.depth + 1]

\* The nodes reached from link l, in order, following at most k links.
RECURSIVE ChainFrom(_, _, _)
ChainFrom(h, l, k) ==
    IF l = Null \/ k = 0 THEN <<>>
    ELSE <<l>> \o ChainFrom(h, h.next[l], k - 1)

Chain(h) == ChainFrom(h, h.head, MaxNodes + 1)
ElemsOf(h, s) == [i \in 1..Len(s) |-> h.elem[s[i]]]
ChainElems(h) == ElemsOf(h, Chain(h))

\* ---------------------------------------------------------- List<T> methods
\* A push that builds the node with an empty next and loses the old chain.
push_drops_chain(h, e) ==
    LET n == BoxNew(h)
        taken == [h EXCEPT !.head = Null]
    IN  [taken EXCEPT !.elem[n] = e, !.next[n] = Null,
                      !.alloc[n] = "live", !.head = n]

\* List::push
push(h, e) ==
    LET n == BoxNew(h)
        taken == [h EXCEPT !.head = Null]
    IN  [taken EXCEPT !.elem[n] = e, !.next[n] = h.head,
                      !.alloc[n] = "live", !.head = n]

\* A pop that answers an empty list with a default element, not with None.
pop_default_on_empty(h) ==
    IF h.head = Null THEN [heap |-> h, ret |-> SomeVal(NoVal)]
    ELSE LET node == h.head
             taken == [h EXCEPT !.head = Null]
             moved == [taken EXCEPT !.head = h.next[node]]
         IN  [heap |-> FreeBox(moved, node), ret |-> SomeVal(h.elem[node])]

\* A pop that takes the head out and never puts the successor back.
pop_forgets_successor(h) ==
    IF h.head = Null THEN [heap |-> h, ret |-> None]
    ELSE LET node == h.head
             taken == [h EXCEPT !.head = Null]
         IN  [heap |-> FreeBox(taken, node), ret |-> SomeVal(h.elem[node])]

\* A pop that promotes the successor's successor, losing a node.
pop_promotes_second(h) ==
    IF h.head = Null THEN [heap |-> h, ret |-> None]
    ELSE LET node == h.head
             succ == h.next[node]
             taken == [h EXCEPT !.head = Null]
             moved == [taken EXCEPT
                         !.head = IF succ = Null THEN Null ELSE h.next[succ]]
         IN  [heap |-> FreeBox(moved, node), ret |-> SomeVal(h.elem[node])]

\* List::pop
pop(h) ==
    IF h.head = Null THEN [heap |-> h, ret |-> None]
    ELSE LET node == h.head
             taken == [h EXCEPT !.head = Null]
             moved == [taken EXCEPT !.head = h.next[node]]
         IN  [heap |-> FreeBox(moved, node), ret |-> SomeVal(h.elem[node])]

\* A peek written with take() where as_ref() belongs.
peek_takes(h) ==
    IF h.head = Null THEN [heap |-> h, ret |-> None]
    ELSE [heap |-> [h EXCEPT !.head = Null], ret |-> SomeRef(h.head)]

\* List::peek
peek(h) ==
    IF h.head = Null THEN [heap |-> h, ret |-> None]
    ELSE [heap |-> h, ret |-> SomeRef(h.head)]

\* A peek_mut that hands out the element of the node after the head.
peek_mut_second(h) ==
    IF h.head = Null THEN [heap |-> h, ret |-> None]
    ELSE IF h.next[h.head] = Null THEN [heap |-> h, ret |-> SomeRef(h.head)]
    ELSE [heap |-> h, ret |-> SomeRef(h.next[h.head])]

\* List::peek_mut
peek_mut(h) ==
    IF h.head = Null THEN [heap |-> h, ret |-> None]
    ELSE [heap |-> h, ret |-> SomeRef(h.head)]

\* A pop_node that hands out the old head with its next link still set.
pop_node_keeps_link(h) ==
    IF h.head = Null THEN [heap |-> h, link |-> Null]
    ELSE [heap |-> [h EXCEPT !.head = h.next[h.head]], link |-> h.head]

\* List::pop_node: the head is taken, its successor promoted, and its element
\* boxed again in a node of its own; the old Box is released.
pop_node(h) ==
    IF h.head = Null THEN [heap |-> h, link |-> Null]
    ELSE LET node == h.head
             taken == [h EXCEPT !.head = Null]
             moved == [taken EXCEPT !.head = h.next[node]]
             n == BoxNew(moved)
             boxed == [moved EXCEPT !.elem[n] = h.elem[node],
                                    !.next[n] = Null, !.alloc[n] = "live"]
         IN  [heap |-> FreeBox(boxed, node), link |-> n]

\* `*r = x` for a reference r to a node's element
write(h, n, x) == [h EXCEPT !.elem[n] = x]

\* What a returned Option holds, references read through.
Deref(h, r) == IF r.ref = Null THEN r.val ELSE h.elem[r.ref]

\* -------------------------------------------------------------- iterators
\* An IntoIter::next that reads the top element and leaves it on the list.
IntoIter_next_peeks(h) ==
    IF h.head = Null THEN [heap |-> h, ret |-> None]
    ELSE [heap |-> h, ret |-> SomeVal(h.elem[h.head])]

\* List::into_iter wraps the list itself; IntoIter::next
IntoIter_next(h) == pop(h)

\* List::iter
iter(h) == h.head

\* An Iter::next that advances two links at a time.
Iter_next_skips(c, h) ==
    IF c = Null THEN [cursor |-> Null, heap |-> h, ret |-> None]
    ELSE [cursor |-> IF h.next[c] = Null THEN Null ELSE h.next[h.next[c]],
          heap |-> h, ret |-> SomeRef(c)]

\* Iter::next
Iter_next(c, h) ==
    IF c = Null THEN [cursor |-> Null, heap |-> h, ret |-> None]
    ELSE [cursor |-> h.next[c], heap |-> h, ret |-> SomeRef(c)]

\* An iter_mut that starts at the node after the head.
iter_mut_from_second(h) == IF h.head = Null THEN Null ELSE h.next[h.head]

\* List::iter_mut
iter_mut(h) == h.head

\* An IterMut::next that puts the same node back into the cursor.
IterMut_next_stays(c, h) ==
    IF c = Null THEN [cursor |-> Null, heap |-> h, ret |-> None]
    ELSE [cursor |-> c, heap |-> h, ret |-> SomeRef(c)]

\* IterMut::next
IterMut_next(c, h) ==
    LET taken == Null
    IN  IF c = Null THEN [cursor |-> taken, heap |-> h, ret |-> None]
        ELSE [cursor |-> h.next[c], heap |-> h, ret |-> SomeRef(c)]

\* ------------------------------------------------------------- destructor
\* Drop::drop, up to the loop: `let mut cur_link = self.head.take()`
drop_begin(h) == [heap |-> [h EXCEPT !.head = Null], cur_link |-> h.head]

\* An iteration that reads the successor and leaves the node's link in place.
drop_step_keeps_link(h, cl) ==
    LET boxed_node == cl
        dropped == DropBox(h, boxed_node)
    IN  [heap |-> dropped.heap, cur_link |-> h.next[boxed_node],
         depth |-> dropped.depth]

\* A destructor that drops the head and lets every node drop its successor.
drop_step_recursive(h, cl) ==
    LET dropped == DropBox(h, cl)
    IN  [heap |-> dropped.heap, cur_link |-> Null, depth |-> dropped.depth]

\* One iteration of `while let Some(mut boxed_node) = cur_link`
drop_step(h, cl) ==
    LET boxed_node == cl
        replaced == [h EXCEPT !.next[boxed_node] = Null]
        dropped == DropBox(replaced, boxed_node)
    IN  [heap |-> dropped.heap, cur_link |-> h.next[boxed_node],
         depth |-> dropped.depth]

\* ------------------------------------------- the prototype of first.rs
\* enum Link { Empty, More(Box<Node>) }
Empty == [tag |-> "Empty", node |-> Null]
More(n) == [tag |-> "More", node |-> n]

\* first.rs List::new
new1 ==
    [head |-> Empty,
     elem |-> [n \in Nodes |-> NoVal],
     next |-> [n \in Nodes |-> Empty],
     alloc |-> [n \in Nodes |-> "free"],
     relCount |-> [n \in Nodes |-> 0],
     relNext |-> [n \in Nodes |-> Empty]]

\* A Box<Node> of the prototype emptied by moves and deallocated.
FreeBox1(h, n) ==
    [h EXCEPT !.alloc[n] = "freed", !.relCount[n] = @ + 1,
              !.elem[n] = NoVal, !.next[n] = Empty]

\* The drop glue of the prototype's Box<Node>.
RECURSIVE DropBox1(_, _)
DropBox1(h, n) ==
    LET succ == h.next[n]
        inner == IF succ.tag = "Empty" THEN [heap |-> h, depth |-> 0]
                                       ELSE DropBox1(h, succ.node)
        h1 == inner.heap
    IN  [heap |-> [h1 EXCEPT !.alloc[n] = "freed", !.relCount[n] = @ + 1,
                             !.relNext[n] = succ,
                             !.elem[n] = NoVal, !.next[n] = Empty],
         depth |-> inner.depth + 1]

RECURSIVE ChainFrom1(_, _, _)
ChainFrom1(h, l, k) ==
    IF l.tag = "Empty" \/ k = 0 THEN <<>>
    ELSE <<l.node>> \o ChainFrom1(h, h.next[l.node], k - 1)

Chain1(h) == ChainFrom1(h, h.head, MaxNodes + 1)
ChainElems1(h) == ElemsOf(h, Chain1(h))

\* first.rs List::push
push1(h, e) ==
    LET n == BoxNew(h)
        old == h.head
        replaced == [h EXCEPT !.head = Empty]
    IN  [replaced EXCEPT !.elem[n] = e, !.next[n] = old,
                         !.alloc[n] = "live", !.head = More(n)]

\* A prototype pop that leaves the head Empty after the mem::replace.
pop1_leaves_empty(h) ==
    LET old == h.head
        replaced == [h EXCEPT !.head = Empty]
    IN  IF old.tag = "Empty" THEN [heap |-> replaced, ret |-> None]
        ELSE [heap |-> FreeBox1(replaced, old.node),
              ret |-> SomeVal(h.elem[old.node])]

\* first.rs List::pop
pop1(h) ==
    LET old == h.head
        replaced == [h EXCEPT !.head = Empty]
    IN  IF old.tag = "Empty" THEN [heap |-> replaced, ret |-> None]
        ELSE LET node == old.node
                 moved == [replaced EXCEPT !.head = h.next[node]]
             IN  [heap |-> FreeBox1(moved, node),
                  ret |-> SomeVal(h.elem[node])]

\* first.rs List::pop_node
pop_node1(h) ==
    LET old == h.head
        replaced == [h EXCEPT !.head = Empty]
    IN  IF old.tag = "Empty" THEN [heap |-> replaced, link |-> Empty]
        ELSE LET node == old.node
                 moved == [replaced EXCEPT !.head = h.next[node]]
                 n == BoxNew(moved)
                 boxed == [moved EXCEPT !.elem[n] = h.elem[node],
                                        !.next[n] = Empty,
                                        !.alloc[n] = "live"]
             IN  [heap |-> FreeBox1(boxed, node), link |-> More(n)]

\* first.rs Drop::drop, up to the loop
drop1_begin(h) == [heap |-> [h EXCEPT !.head = Empty], cur_link |-> h.head]

\* first.rs Drop::drop, one iteration of `while let Link::More(..)`
drop1_step(h, cl) ==
    LET boxed_node == cl.node
        replaced == [h EXCEPT !.next[boxed_node] = Empty]
        dropped == DropBox1(replaced, boxed_node)
    IN  [heap |-> dropped.heap, cur_link |-> h.next[boxed_node],
         depth |-> dropped.depth]

\* first.rs Drop::drop, the loop run until the pattern no longer matches
RECURSIVE drop1_loop(_, _, _)
drop1_loop(h, cl, k) ==
    IF cl.tag = "Empty" \/ k = 0 THEN h
    ELSE LET r == drop1_step(h, cl) IN drop1_loop(r.heap, r.cur_link, k - 1)

\* first.rs Drop::drop
drop1(h) ==
    LET b == drop1_begin(h) IN drop1_loop(b.heap, b.cur_link, MaxNodes + 1)

\* The prototype list with the locals of its caller and of its destructor.
NewProto == [heap |-> new1, cur_link |-> Empty, ret |-> None, node |-> Empty]

\* ---------------------------------------------------------------- actions
\* A call the prototype has no counterpart of.
ProtoSame == UNCHANGED <<proto, synced>>

\* The generic list is used in a way the prototype cannot follow: the run in
\* step ends, and the prototype list and what its caller holds are dropped.
ProtoGone ==
    /\ synced' = FALSE
    /\ proto' = IF synced
                  THEN LET h1 == IF proto.node.tag = "More"
                                   THEN DropBox1(proto.heap, proto.node.node).heap
                                   ELSE proto.heap
                           h2 == drop1_loop(h1, proto.cur_link, MaxNodes + 1)
                       IN  [NewProto EXCEPT !.heap = drop1(h2)]
                  ELSE proto

SetHeap(h) ==
    /\ head' = h.head
    /\ elem' = h.elem
    /\ next' = h.next
    /\ alloc' = h.alloc
    /\ relCount' = h.relCount
    /\ relNext' = h.relNext

NoIter ==
    /\ cursor' = Null
    /\ yielded' = <<>>
    /\ snapNodes' = <<>>
    /\ snapElems' = <<>>

NoLog ==
    /\ phase' = "other"
    /\ pushLog' = <<>>
    /\ popLog' = <<>>

Called(op, a, i, r) ==
    /\ lastOp' = op
    /\ arg' = a
    /\ idx' = i
    /\ ret' = r

\* An iterator's results, kept until one None past the end has been seen twice.
Log(y, r) == IF Len(y) < MaxNodes + 2 THEN Append(y, r) ELSE y

Init ==
    /\ head = new.head
    /\ elem = new.elem
    /\ next = new.next
    /\ alloc = new.alloc
    /\ relCount = new.relCount
    /\ relNext = new.relNext
    /\ pc = "list"
    /\ cursor = Null
    /\ yielded = <<>>
    /\ snapNodes = <<>>
    /\ snapElems = <<>>
    /\ cur_link = Null
    /\ dropIters = 0
    /\ dropDepth = 0
    /\ lastOp = "new"
    /\ arg = NoVal
    /\ idx = 0
    /\ ret = None
    /\ phase = "push"
    /\ pushLog = <<>>
    /\ popLog = <<>>
    /\ detached = Null
    /\ proto = NewProto
    /\ synced = TRUE

\* A new list is made once the previous one is gone.
New ==
    /\ pc = "dropped"
    /\ SetHeap(new)
    /\ pc' = "list"
    /\ NoIter
    /\ cur_link' = Null
    /\ dropIters' = 0
    /\ dropDepth' = 0
    /\ Called("new", NoVal, 0, None)
    /\ phase' = "push"
    /\ pushLog' = <<>>
    /\ popLog' = <<>>
    /\ detached' = Null
    /\ proto' = NewProto
    /\ synced' = TRUE

Push(v) ==
    /\ pc = "list"
    /\ CanAlloc(Heap)
    /\ SetHeap(push(Heap, v))
    /\ Called("push", v, 0, None)
    /\ NoIter
    /\ IF phase = "push"
         THEN /\ phase' = "push"
              /\ pushLog' = Append(pushLog, v)
              /\ popLog' = popLog
         ELSE NoLog
    /\ UNCHANGED <<pc, cur_link, dropIters, dropDepth>>
    /\ proto' = IF synced THEN [proto EXCEPT !.heap = push1(@, v)] ELSE proto
    /\ UNCHANGED <<synced, detached>>

Pop ==
    /\ pc = "list"
    /\ LET r == pop(Heap)
       IN  /\ SetHeap(r.heap)
           /\ Called("pop", NoVal, 0, r.ret)
           /\ IF phase \in {"push", "pop"} /\ Len(popLog) <= Len(pushLog)
                THEN /\ phase' = "pop"
                     /\ pushLog' = pushLog
                     /\ popLog' = Append(popLog, r.ret)
                ELSE NoLog
    /\ NoIter
    /\ UNCHANGED <<pc, cur_link, dropIters, dropDepth>>
    /\ proto' = IF synced
                  THEN [proto EXCEPT !.heap = pop1(proto.heap).heap,
                                     !.ret = pop1(proto.heap).ret]
                  ELSE proto
    /\ UNCHANGED <<synced, detached>>

\* A peek callable while the list is borrowed exclusively.
Peek_while_borrowed ==
    /\ pc \in {"list", "iter", "iter_mut", "peek_mut"}
    /\ LET r == peek(Heap)
       IN  /\ SetHeap(r.heap)
           /\ Called("peek", NoVal, 0, r.ret)
    /\ NoLog
    /\ IF pc = "list" THEN NoIter
                      ELSE UNCHANGED <<cursor, yielded, snapNodes, snapElems>>
    /\ UNCHANGED <<pc, cur_link, dropIters, dropDepth>>
    /\ ProtoSame
    /\ UNCHANGED detached

\* peek borrows the list read-only, so it may also run beside a live Iter.
Peek ==
    /\ pc \in {"list", "iter"}
    /\ LET r == peek(Heap)
       IN  /\ SetHeap(r.heap)
           /\ Called("peek", NoVal, 0, r.ret)
    /\ NoLog
    /\ IF pc = "list" THEN NoIter
                      ELSE UNCHANGED <<cursor, yielded, snapNodes, snapElems>>
    /\ UNCHANGED <<pc, cur_link, dropIters, dropDepth>>
    /\ ProtoSame
    /\ UNCHANGED detached

PeekMut ==
    /\ pc = "list"
    /\ LET r == peek_mut(Heap)
       IN  /\ SetHeap(r.heap)
           /\ Called("peek_mut", NoVal, 0, r.ret)
    /\ pc' = "peek_mut"
    /\ NoLog
    /\ NoIter
    /\ UNCHANGED <<cur_link, dropIters, dropDepth>>
    /\ ProtoSame
    /\ UNCHANGED detached

\* `*value = x` through the reference peek_mut returned
WritePeekMut(x) ==
    /\ pc = "peek_mut"
    /\ ret.some
    /\ SetHeap(write(Heap, ret.ref, x))
    /\ lastOp' = "write"
    /\ arg' = x
    /\ UNCHANGED <<idx, ret, pc, cursor, yielded, snapNodes, snapElems,
                   cur_link, dropIters, dropDepth, phase, pushLog, popLog>>
    /\ ProtoGone
    /\ UNCHANGED detached

\* The reference peek_mut returned is used no more.
EndPeekMut ==
    /\ pc = "peek_mut"
    /\ pc' = "list"
    /\ Called("end_peek_mut", NoVal, 0, None)
    /\ UNCHANGED <<head, elem, next, alloc, relCount, relNext, cursor,
                   yielded, snapNodes, snapElems, cur_link, dropIters,
                   dropDepth, phase, pushLog, popLog>>
    /\ ProtoSame
    /\ UNCHANGED detached

\* pop_node hands its caller a node of its own.
PopNode ==
    /\ pc = "list"
    /\ head = Null \/ CanAlloc(Heap)
    /\ LET r == pop_node(Heap)
       IN  /\ SetHeap(r.heap)
           /\ detached' = r.link
           /\ Called("pop_node", NoVal, 0,
                     IF r.link = Null THEN None ELSE SomeRef(r.link))
    /\ proto' = IF synced
                  THEN [proto EXCEPT !.heap = pop_node1(proto.heap).heap,
                                     !.node = pop_node1(proto.heap).link]
                  ELSE proto
    /\ pc' = "pop_node"
    /\ NoLog
    /\ NoIter
    /\ UNCHANGED <<cur_link, dropIters, dropDepth, synced>>

\* The caller lets go of the link pop_node returned: a Some(Box<Node>) is
\* dropped, a None is nothing.
DropDetached ==
    /\ pc = "pop_node"
    /\ SetHeap(IF detached = Null THEN Heap ELSE DropBox(Heap, detached).heap)
    /\ detached' = Null
    /\ proto' = IF synced /\ proto.node.tag = "More"
                  THEN [proto EXCEPT
                          !.heap = DropBox1(proto.heap, proto.node.node).heap,
                          !.node = Empty]
                  ELSE proto
    /\ pc' = "list"
    /\ Called("drop_node", NoVal, 0, None)
    /\ UNCHANGED <<cursor, yielded, snapNodes, snapElems, cur_link, dropIters,
                   dropDepth, phase, pushLog, popLog, synced>>

Snapshot ==
    /\ snapNodes' = Chain(Heap)
    /\ snapElems' = ChainElems(Heap)

IntoIterNew ==
    /\ pc = "list"
    /\ pc' = "into_iter"
    /\ Snapshot
    /\ cursor' = Null
    /\ yielded' = <<>>
    /\ Called("into_iter", NoVal, 0, None)
    /\ NoLog
    /\ UNCHANGED <<head, elem, next, alloc, relCount, relNext, cur_link,
                   dropIters, dropDepth>>
    /\ ProtoGone
    /\ UNCHANGED detached

IntoIterNext ==
    /\ pc = "into_iter"
    /\ LET r == IntoIter_next(Heap)
       IN  /\ SetHeap(r.heap)
           /\ Called("into_iter_next", NoVal, 0, r.ret)
           /\ yielded' = Log(yielded, r.ret)
    /\ UNCHANGED <<pc, cursor, snapNodes, snapElems, cur_link, dropIters,
                   dropDepth, phase, pushLog, popLog>>
    /\ ProtoSame
    /\ UNCHANGED detached

IterNew ==
    /\ pc = "list"
    /\ pc' = "iter"
    /\ Snapshot
    /\ cursor' = iter(Heap)
    /\ yielded' = <<>>
    /\ Called("iter", NoVal, 0, None)
    /\ NoLog
    /\ UNCHANGED <<head, elem, next, alloc, relCount, relNext, cur_link,
                   dropIters, dropDepth>>
    /\ ProtoSame
    /\ UNCHANGED detached

IterNext ==
    /\ pc = "iter"
    /\ LET r == Iter_next(cursor, Heap)
       IN  /\ SetHeap(r.heap)
           /\ cursor' = r.cursor
           /\ Called("iter_next", NoVal, 0, r.ret)
           /\ yielded' = Log(yielded, r.ret)
    /\ UNCHANGED <<pc, snapNodes, snapElems, cur_link, dropIters, dropDepth,
                   phase, pushLog, popLog>>
    /\ ProtoSame
    /\ UNCHANGED detached

\* The Iter and the references it yielded are used no more.
IterEnd ==
    /\ pc = "iter"
    /\ pc' = "list"
    /\ cursor' = Null
    /\ Called("iter_end", NoVal, 0, None)
    /\ UNCHANGED <<head, elem, next, alloc, relCount, relNext, yielded,
                   snapNodes, snapElems, cur_link, dropIters, dropDepth,
                   phase, pushLog, popLog>>
    /\ ProtoSame
    /\ UNCHANGED detached

IterMutNew ==
    /\ pc = "list"
    /\ pc' = "iter_mut"
    /\ snapNodes' = Chain(Heap)
    /\ snapElems' = <<>>
    /\ cursor' = iter_mut(Heap)
    /\ yielded' = <<>>
    /\ Called("iter_mut", NoVal, 0, None)
    /\ NoLog
    /\ UNCHANGED <<head, elem, next, alloc, relCount, relNext, cur_link,
                   dropIters, dropDepth>>
    /\ ProtoSame
    /\ UNCHANGED detached

IterMutNext ==
    /\ pc = "iter_mut"
    /\ LET r == IterMut_next(cursor, Heap)
       IN  /\ SetHeap(r.heap)
           /\ cursor' = r.cursor
           /\ Called("iter_mut_next", NoVal, 0, r.ret)
           /\ yielded' = Log(yielded, r.ret)
    /\ UNCHANGED <<pc, snapNodes, snapElems, cur_link, dropIters, dropDepth,
                   phase, pushLog, popLog>>
    /\ ProtoSame
    /\ UNCHANGED detached

\* `*r = x` through the k-th reference the IterMut yielded
IterMutWrite(k, x) ==
    /\ pc = "iter_mut"
    /\ k \in 1..Len(yielded)
    /\ yielded[k].some
    /\ SetHeap(write(Heap, yielded[k].ref, x))
    /\ Called("iter_mut_write", x, k, None)
    /\ UNCHANGED <<pc, cursor, yielded, snapNodes, snapElems, cur_link,
                   dropIters, dropDepth, phase, pushLog, popLog>>
    /\ ProtoGone
    /\ UNCHANGED detached

\* The IterMut and the references it yielded are used no more.
IterMutEnd ==
    /\ pc = "iter_mut"
    /\ pc' = "list"
    /\ cursor' = Null
    /\ Called("iter_mut_end", NoVal, 0, None)
    /\ UNCHANGED <<head, elem, next, alloc, relCount, relNext, yielded,
                   snapNodes, snapElems, cur_link, dropIters, dropDepth,
                   phase, pushLog, popLog>>
    /\ ProtoSame
    /\ UNCHANGED detached

\* The list, or the IntoIter that wraps it, goes out of scope.
DropBegin ==
    /\ pc \in {"list", "into_iter"}
    /\ LET r == drop_begin(Heap)
       IN  /\ SetHeap(r.heap)
           /\ cur_link' = r.cur_link
    /\ pc' = "drop"
    /\ Snapshot
    /\ cursor' = Null
    /\ yielded' = <<>>
    /\ dropIters' = 0
    /\ dropDepth' = 0
    /\ Called("drop", NoVal, 0, None)
    /\ NoLog
    /\ proto' = IF synced
                  THEN [proto EXCEPT
                          !.heap = drop1_begin(proto.heap).heap,
                          !.cur_link = drop1_begin(proto.heap).cur_link]
                  ELSE proto
    /\ UNCHANGED <<synced, detached>>

DropStep ==
    /\ pc = "drop"
    /\ cur_link # Null
    /\ LET r == drop_step(Heap, cur_link)
       IN  /\ SetHeap(r.heap)
           /\ cur_link' = r.cur_link
           /\ dropDepth' = IF r.depth > dropDepth THEN r.depth ELSE dropDepth
    /\ dropIters' = dropIters + 1
    /\ Called("drop_step", NoVal, 0, None)
    /\ UNCHANGED <<pc, cursor, yielded, snapNodes, snapElems, phase, pushLog,
                   popLog>>
    /\ proto' = IF synced /\ proto.cur_link.tag = "More"
                  THEN [proto EXCEPT
                          !.heap = drop1_step(proto.heap, proto.cur_link).heap,
                          !.cur_link =
                              drop1_step(proto.heap, proto.cur_link).cur_link]
                  ELSE proto
    /\ UNCHANGED <<synced, detached>>

\* The pattern no longer matches: the loop and the destructor are over.
DropEnd ==
    /\ pc = "drop"
    /\ cur_link = Null
    /\ pc' = "dropped"
    /\ Called("drop_end", NoVal, 0, None)
    /\ UNCHANGED <<head, elem, next, alloc, relCount, relNext, cursor,
                   yielded, snapNodes, snapElems, cur_link, dropIters,
                   dropDepth, phase, pushLog, popLog>>
    /\ ProtoSame
    /\ UNCHANGED detached

Next ==
    \/ New
    \/ \E v \in Values : Push(v)
    \/ Pop
    \/ PopNode
    \/ DropDetached
    \/ Peek
    \/ PeekMut
    \/ \E x \in Values : WritePeekMut(x)
    \/ EndPeekMut
    \/ IntoIterNew
    \/ IntoIterNext
    \/ IterNew
    \/ IterNext
    \/ IterEnd
    \/ IterMutNew
    \/ IterMutNext
    \/ \E k \in 1..MaxNodes : \E x \in Values : IterMutWrite(k, x)
    \/ IterMutEnd
    \/ DropBegin
    \/ DropStep
    \/ DropEnd

Spec == Init /\ [][Next]_vars

\* The destructor's loop runs to its end once it has begun: the code is
\* sequential and nothing can suspend it.
FairSpec == Spec /\ WF_vars(DropStep) /\ WF_vars(DropEnd)

\* ------------------------------------------------ traversals run to the end
Fuel == MaxNodes + 1

\* `while let Some(x) = list.pop()`: what the calls return until None
RECURSIVE DrainPop(_, _)
DrainPop(h, k) ==
    LET r == pop(h)
    IN  IF k = 0 \/ ~r.ret.some THEN <<>>
        ELSE <<Deref(r.heap, r.ret)>> \o DrainPop(r.heap, k - 1)

\* `while let Some(x) = into_iter.next()`
RECURSIVE DrainIntoIter(_, _)
DrainIntoIter(h, k) ==
    LET r == IntoIter_next(h)
    IN  IF k = 0 \/ ~r.ret.some THEN <<>>
        ELSE <<Deref(r.heap, r.ret)>> \o DrainIntoIter(r.heap, k - 1)

\* `while let Some(x) = iter.next()`
RECURSIVE DrainIter(_, _, _)
DrainIter(c, h, k) ==
    LET r == Iter_next(c, h)
    IN  IF k = 0 \/ ~r.ret.some THEN <<>>
        ELSE <<Deref(r.heap, r.ret)>> \o DrainIter(r.cursor, r.heap, k - 1)

\* `while let Some(x) = iter_mut.next()`
RECURSIVE DrainIterMut(_, _, _)
DrainIterMut(c, h, k) ==
    LET r == IterMut_next(c, h)
    IN  IF k = 0 \/ ~r.ret.some THEN <<>>
        ELSE <<Deref(r.heap, r.ret)>> \o DrainIterMut(r.cursor, r.heap, k - 1)

\* ------------------------------------- ownership transfer, step by step
\* The points inside an operation at which a node's owner changes: the heap
\* at that point and the links the operation's local variables then hold.
At(h, l) == [heap |-> h, locals |-> l]

\* List::push: head.take() into a temporary, Box::new(Node{..}) into
\* new_node, self.head = Some(new_node)
push_steps(h, e) ==
    LET n == BoxNew(h)
        taken == [h EXCEPT !.head = Null]
        boxed == [taken EXCEPT !.elem[n] = e, !.next[n] = h.head,
                               !.alloc[n] = "live"]
    IN  <<At(taken, <<h.head>>), At(boxed, <<n>>),
          At([boxed EXCEPT !.head = n], <<>>)>>

\* List::pop on a non-empty list: head.take() into node, self.head =
\* node.next, node.elem returned and the emptied Box released
pop_steps(h) ==
    LET node == h.head
        taken == [h EXCEPT !.head = Null]
        moved == [taken EXCEPT !.head = h.next[node], !.next[node] = Null]
    IN  <<At(taken, <<node>>), At(moved, <<node>>),
          At(FreeBox(moved, node), <<>>)>>

\* One iteration of the loop of Drop::drop: cur_link moved into boxed_node,
\* its next replaced by None and moved into cur_link, boxed_node dropped
drop_steps(h, cl) ==
    LET boxed_node == cl
        replaced == [h EXCEPT !.next[boxed_node] = Null]
    IN  <<At(h, <<boxed_node>>),
          At(replaced, <<boxed_node, h.next[boxed_node]>>),
          At(DropBox(replaced, boxed_node).heap, <<h.next[boxed_node]>>)>>

\* IterMut::next, statement by statement: self.next.take() empties the slot
\* and hands the node to the closure; the closure installs the successor and
\* returns the reference to the element.
IterMut_next_steps(c, h) ==
    LET node == c
        taken == Null
    IN  IF node = Null
          THEN <<[cursor |-> taken, held |-> Null, ret |-> None],
                 [cursor |-> taken, held |-> Null, ret |-> None]>>
          ELSE <<[cursor |-> taken, held |-> node, ret |-> None],
                 [cursor |-> h.next[node], held |-> Null,
                  ret |-> SomeRef(node)]>>

\* ----------------------------------------------------------------- claims
\* The live node allocated last: the most recently pushed, not yet popped.
Newest(h) == CHOOSE n \in Nodes :
    /\ h.alloc[n] = "live"
    /\ \A m \in Nodes : h.alloc[m] = "live" => m <= n

\* s lists nodes from the last allocated to the first.
LastPushedFirst(s) == \A i, j \in 1..Len(s) : i < j => s[i] > s[j]

\* What an iterator over the snapshot s must have returned at its i-th call.
Expected(s, i, some(_)) == IF i <= Len(s) THEN some(s[i]) ELSE None

\* C1: after pushing v1..vn onto a new list, the pops that follow return
\* Some(vn), ..., Some(v1) in that order, and the (n+1)-th returns None.
C1_PushThenPopLIFO ==
    phase \in {"push", "pop"} =>
        \A i \in 1..Len(popLog) :
            popLog[i] = IF i <= Len(pushLog)
                          THEN SomeVal(pushLog[Len(pushLog) + 1 - i])
                          ELSE None

C1_Witness ==
    /\ phase = "pop"
    /\ Len(pushLog) >= 3
    /\ pushLog[1] # pushLog[2]
    /\ Len(popLog) = Len(pushLog) + 1

\* C2: on an empty list pop, peek and peek_mut return None and leave the list
\* as it was: empty, and answering a later push or pop as a new list does.
C2_EmptyReturnsNone ==
    [][(pc = "list" /\ head = Null /\ lastOp' \in {"pop", "peek", "peek_mut"})
        => /\ ret' = None
           /\ head' = Null
           /\ Heap' = Heap
           /\ pop(Heap').ret = pop(new).ret
           /\ \A v \in Values :
                CanAlloc(Heap') =>
                    ChainElems(push(Heap', v)) = ChainElems(push(new, v))]_vars

C2_Witness ==
    /\ lastOp = "pop"
    /\ ret = None
    /\ head = Null
    /\ phase = "other"
    /\ \E n \in Nodes : alloc[n] = "freed"

\* C3: on a non-empty list peek returns a reference to the element of the most
\* recently pushed node not yet popped and changes nothing, so that a pop
\* made right after it returns that value.
C3_PeekTop ==
    [][(lastOp' = "peek" /\ head # Null)
        => /\ ret' = SomeRef(head)
           /\ head = Newest(Heap)
           /\ Heap' = Heap
           /\ pop(Heap').ret = SomeVal(Deref(Heap', ret'))]_vars

C3_Witness ==
    /\ lastOp = "peek"
    /\ pc = "list"
    /\ ret.some
    /\ Len(Chain(Heap)) >= 2
    /\ elem[head] # elem[next[head]]

\* C4: writing x through the reference peek_mut returned replaces the top
\* element and nothing else: peek and pop then see x, the elements below and
\* every link are as before.
C4_PeekMutWrite ==
    [][(lastOp' = "write" /\ pc = "peek_mut")
        => /\ head # Null
           /\ elem' = [elem EXCEPT ![head] = arg']
           /\ <<head', next', alloc'>> = <<head, next, alloc>>
           /\ Chain(Heap') = Chain(Heap)
           /\ Deref(Heap', peek(Heap').ret) = arg'
           /\ pop(Heap').ret = SomeVal(arg')]_vars

C4_Witness ==
    /\ lastOp = "write"
    /\ Len(Chain(Heap)) >= 2
    /\ elem[head] = arg
    /\ elem[next[head]] # arg

\* C5: writing x through the k-th reference an IterMut yielded changes the
\* k-th element from the top and nothing else; for k = 1 peek then sees x.
C5_IterMutWrite ==
    [][(lastOp' = "iter_mut_write")
        => /\ idx' \in 1..Len(Chain(Heap))
           /\ elem' = [elem EXCEPT ![Chain(Heap)[idx']] = arg']
           /\ <<head', next', alloc'>> = <<head, next, alloc>>
           /\ (idx' = 1 => Deref(Heap', peek(Heap').ret) = arg')]_vars

C5_Witness ==
    /\ lastOp = "iter_mut_write"
    /\ idx = 2
    /\ Len(Chain(Heap)) >= 3
    /\ elem[Chain(Heap)[2]] = arg
    /\ elem[Chain(Heap)[1]] # arg
    /\ elem[Chain(Heap)[3]] # arg

C6_Yields ==
    pc = "into_iter" =>
        /\ LastPushedFirst(snapNodes)
        /\ \A i \in 1..Len(yielded) :
             yielded[i] = Expected(snapElems, i, SomeVal)
        /\ Len(yielded) + Len(Chain(Heap)) >= Len(snapElems)
        /\ (\E i \in 1..Len(yielded) : ~yielded[i].some) => head = Null

\* C6: an IntoIter made from a list of n elements yields n Some values, last
\* pushed first, each what pop returns on the wrapped list, and then None;
\* the wrapped list is empty once None has been yielded.
C6_IntoIter ==
    /\ []C6_Yields
    /\ [][(lastOp' = "into_iter_next")
           => /\ ret' = pop(Heap).ret
              /\ Heap' = pop(Heap).heap]_vars

C6_Witness ==
    /\ pc = "into_iter"
    /\ Len(snapElems) >= 3
    /\ Len(yielded) = Len(snapElems) + 1
    /\ snapElems[1] # snapElems[2]

\* C7: an Iter made from a list of n elements yields references to its n
\* nodes from head to tail, last pushed first, and then None; the elements,
\* their order and the length of the chain are after the traversal what they
\* were before it.
C7_Iter ==
    (pc = "iter" \/ lastOp = "iter_end") =>
        /\ LastPushedFirst(snapNodes)
        /\ \A i \in 1..Len(yielded) :
             yielded[i] = Expected(snapNodes, i, SomeRef)
        /\ Chain(Heap) = snapNodes
        /\ ChainElems(Heap) = snapElems

C7_Witness ==
    /\ lastOp = "iter_end"
    /\ Len(snapNodes) >= 3
    /\ Len(yielded) = Len(snapNodes) + 1
    /\ snapElems[1] # snapElems[2]

\* C8: into_iter, iter and iter_mut (with no writes) produce the same
\* sequence of elements, the one repeated pops return until None.
C8_SameOrder ==
    /\ DrainIntoIter(Heap, Fuel) = DrainPop(Heap, Fuel)
    /\ DrainIter(iter(Heap), Heap, Fuel) = DrainPop(Heap, Fuel)
    /\ DrainIterMut(iter_mut(Heap), Heap, Fuel) = DrainPop(Heap, Fuel)
    /\ DrainPop(Heap, Fuel) = ChainElems(Heap)

C8_Witness ==
    /\ pc = "list"
    /\ Len(DrainIterMut(iter_mut(Heap), Heap, Fuel)) >= 3
    /\ DrainPop(Heap, Fuel)[1] # DrainPop(Heap, Fuel)[2]

C9_Unwinding ==
    /\ pc \in {"drop", "dropped"} =>
        /\ head = Null
        /\ dropIters + Len(ChainFrom(Heap, cur_link, Fuel)) = Len(snapNodes)
        /\ \A i \in 1..Len(snapNodes) :
             IF i <= dropIters
               THEN /\ alloc[snapNodes[i]] = "freed"
                    /\ relCount[snapNodes[i]] = 1
               ELSE /\ alloc[snapNodes[i]] = "live"
                    /\ relCount[snapNodes[i]] = 0
        /\ \A n \in Nodes : relNext[n] = Null /\ relCount[n] <= 1
    /\ pc = "dropped" =>
        /\ dropIters = Len(snapNodes)
        /\ cur_link = Null
        /\ \A n \in Nodes : alloc[n] # "live"

\* C9: the destructor of a list of n nodes ends after n iterations of its
\* loop with the head empty and every node released exactly once, each with
\* its next link already emptied when it is released.
C9_DropTerminates ==
    /\ []C9_Unwinding
    /\ (pc = "drop") ~> (pc = "dropped")

C9_Witness ==
    /\ pc = "dropped"
    /\ Len(snapNodes) >= 3
    /\ dropIters = Len(snapNodes)
    /\ \A i \in 1..Len(snapNodes) : relCount[snapNodes[i]] = 1

\* C10: however long the chain, destroying a node during the destructor never
\* nests inside the destruction of another node: the depth stays at one.
C10_DropDepth ==
    /\ dropDepth <= 1
    /\ (pc = "dropped" /\ Len(snapNodes) > 0) => dropDepth = 1

C10_Witness ==
    /\ pc = "dropped"
    /\ Len(snapNodes) >= 3
    /\ dropDepth = 1

\* How many owning links to node n there are: the head slot, the next slots
\* of live nodes, and the local variables l.
Owners(h, l, n) ==
    (IF h.head = n THEN 1 ELSE 0)
    + Cardinality({m \in Nodes : h.alloc[m] = "live" /\ h.next[m] = n})
    + Cardinality({i \in 1..Len(l) : l[i] = n})

\* Following next from any live node reaches the empty link.
Acyclic(h) ==
    \A n \in Nodes :
        h.alloc[n] = "live" => Len(ChainFrom(h, n, MaxNodes + 1)) <= MaxNodes

WellOwned(h, l) ==
    /\ Acyclic(h)
    /\ \A n \in Nodes : h.alloc[n] = "live" => Owners(h, l, n) = 1

AllWellOwned(steps) ==
    \A i \in 1..Len(steps) : WellOwned(steps[i].heap, steps[i].locals)

\* C11: in every reachable state, and at every point inside push, pop and an
\* iteration of the destructor's loop, the chain is acyclic and every live
\* node has exactly one owner: the head slot, one live node's next slot, or a
\* local variable that holds it during the transfer.
C11_OneOwner ==
    /\ WellOwned(Heap, <<cur_link, detached>>)
    /\ (pc = "list" /\ CanAlloc(Heap)) =>
          \A v \in Values :
              /\ AllWellOwned(push_steps(Heap, v))
              /\ push_steps(Heap, v)[3].heap = push(Heap, v)
    /\ (pc \in {"list", "into_iter"} /\ head # Null) =>
          /\ AllWellOwned(pop_steps(Heap))
          /\ pop_steps(Heap)[3].heap = pop(Heap).heap
    /\ (pc = "drop" /\ cur_link # Null) =>
          /\ AllWellOwned(drop_steps(Heap, cur_link))
          /\ drop_steps(Heap, cur_link)[3].heap
                = drop_step(Heap, cur_link).heap

C11_Witness ==
    /\ pc = "drop"
    /\ Len(snapNodes) >= 3
    /\ dropIters = 1
    /\ cur_link # Null
    /\ next[cur_link] # Null

\* The nodes a step allocates and the nodes whose storage it releases.
Created == {n \in Nodes : alloc[n] = "free" /\ alloc'[n] = "live"}
Released == {n \in Nodes : alloc[n] = "live" /\ alloc'[n] = "freed"}

\* The step pops a node off a non-empty list: pop, IntoIter::next (which
\* calls pop) or pop_node.
PopsANode ==
    /\ lastOp' \in {"pop", "into_iter_next", "pop_node"}
    /\ head # Null

\* C12 as claimed: a node is created exactly when push is called and
\* destroyed exactly when it is popped or the destructor unwinds the chain;
\* no other operation allocates or releases a node.
C12_OnlyPushCreates ==
    [][/\ (Created # {}) <=> (lastOp' = "push")
       /\ (Released # {}) <=> (PopsANode \/ lastOp' = "drop_step")]_vars

\* C12, amended: a node is created exactly when push is called or pop_node
\* is called on a non-empty list (it boxes the popped element in a node of
\* its own), and destroyed exactly when it is popped, when the destructor
\* unwinds the chain, or when the caller drops the node pop_node returned;
\* each such step creates or releases one node, and no other step any.
C12_NodeLifecycle ==
    [][/\ (Created # {}) <=>
            (lastOp' = "push" \/ (lastOp' = "pop_node" /\ head # Null))
       /\ (Released # {}) <=>
            \/ PopsANode
            \/ lastOp' = "drop_step"
            \/ (lastOp' = "drop_node" /\ detached # Null)
       /\ Cardinality(Created) <= 1
       /\ Cardinality(Released) <= 1
       /\ lastOp' # "new" =>
            \A n \in Nodes :
                relCount'[n] = relCount[n] + (IF n \in Released THEN 1 ELSE 0)]_vars

C12_Witness ==
    /\ lastOp = "pop_node"
    /\ detached # Null
    /\ alloc[detached] = "live"
    /\ head # Null
    /\ \E n \in Nodes : alloc[n] = "freed"

\* C13: fed the same new, push, pop and drop calls, the prototype List of
\* first.rs and the generic List return the same result for every pop and
\* hold the same element sequence after every step, the steps of the two
\* destructors included.
C13_PrototypeEquivalent ==
    synced =>
        /\ ChainElems1(proto.heap) = ChainElems(Heap)
        /\ (proto.heap.head = Empty) <=> (head = Null)
        /\ lastOp = "pop" => proto.ret = ret
        /\ ElemsOf(proto.heap,
                   ChainFrom1(proto.heap, proto.cur_link, MaxNodes + 1))
             = ElemsOf(Heap, ChainFrom(Heap, cur_link, MaxNodes + 1))
        /\ \A n \in Nodes :
             /\ proto.heap.alloc[n] = alloc[n]
             /\ proto.heap.relCount[n] = relCount[n]

C13_Witness ==
    /\ synced
    /\ lastOp = "pop"
    /\ proto.ret.some
    /\ Len(Chain1(proto.heap)) >= 2
    /\ proto.heap.elem[Chain1(proto.heap)[1]]
         # proto.heap.elem[Chain1(proto.heap)[2]]

ModelPush(m, v) == <<v>> \o m
ModelPop(m) ==
    IF m = <<>> THEN [model |-> m, ret |-> None]
    ELSE [model |-> Tail(m), ret |-> SomeVal(Head(m))]

\* C15: a new list holds the empty sequence, every push prepends its value
\* to the sequence the list holds and every pop, on an empty list too,
\* removes and returns the first item of that sequence, or returns None when
\* it is empty: after any interleaving of pushes and pops the list holds what
\* the reference model holds.
C15_RefinesSequence ==
    /\ [](lastOp = "new" => ChainElems(Heap) = <<>>)
    /\ [][/\ lastOp' = "push" =>
               ChainElems(Heap') = ModelPush(ChainElems(Heap), arg')
          /\ (lastOp' = "pop" /\ pc = "list") =>
               /\ ChainElems(Heap') = ModelPop(ChainElems(Heap)).model
               /\ ret' = ModelPop(ChainElems(Heap)).ret]_vars

C15_Witness ==
    /\ lastOp = "pop"
    /\ phase = "other"
    /\ ret.some
    /\ Len(Chain(Heap)) >= 1
    /\ ret.val # elem[head]
    /\ \E n \in Nodes : alloc[n] = "free"

\* The live nodes of h other than node n.
OtherLive(h, n) == {m \in Nodes : h.alloc[m] = "live" /\ m # n}

\* C16: push(elem) succeeds whenever storage can be had and makes a new node
\* holding elem the head, its next the previous head (empty for an empty
\* list); every node that existed keeps its element and its next link, and
\* the chain is longer by exactly one.
C16_PushFrame ==
    [][lastOp' = "push" =>
        /\ head' # Null
        /\ alloc[head'] = "free" /\ alloc'[head'] = "live"
        /\ elem'[head'] = arg'
        /\ next'[head'] = head
        /\ \A m \in OtherLive(Heap', head') :
             /\ alloc[m] = "live"
             /\ elem'[m] = elem[m]
             /\ next'[m] = next[m]
        /\ Chain(Heap') = <<head'>> \o Chain(Heap)
        /\ Len(Chain(Heap')) = Len(Chain(Heap)) + 1]_vars

\* push is enabled wherever the list is at hand and storage can be had.
C16_PushSucceeds ==
    (pc = "list" /\ CanAlloc(Heap)) => \A v \in Values : ENABLED Push(v)

C16_Push ==
    /\ []C16_PushSucceeds
    /\ C16_PushFrame

C16_Witness ==
    /\ lastOp = "push"
    /\ Len(Chain(Heap)) >= 3
    /\ elem[head] # elem[next[head]]

\* C17: pop on a non-empty list returns the head node's element and makes
\* the former head's next the new head; every remaining node keeps its element
\* and its next link, the chain is shorter by exactly one, and the head is
\* not left empty when there is a successor; the prototype's pop does the same.
C17_PopFrame ==
    [][(lastOp' = "pop" /\ pc = "list" /\ head # Null) =>
        /\ ret' = SomeVal(elem[head])
        /\ head' = next[head]
        /\ (next[head] # Null => head' # Null)
        /\ alloc'[head] = "freed"
        /\ \A m \in OtherLive(Heap, head) :
             /\ alloc'[m] = "live"
             /\ elem'[m] = elem[m]
             /\ next'[m] = next[m]
        /\ Chain(Heap) = <<head>> \o Chain(Heap')
        /\ Len(Chain(Heap')) = Len(Chain(Heap)) - 1
        /\ synced =>
             LET h1 == proto.heap
                 node == h1.head.node
             IN  /\ proto'.ret = SomeVal(h1.elem[node])
                 /\ proto'.heap.head = h1.next[node]
                 /\ \A m \in OtherLive(h1, node) :
                      /\ proto'.heap.alloc[m] = "live"
                      /\ proto'.heap.elem[m] = h1.elem[m]
                      /\ proto'.heap.next[m] = h1.next[m]
                 /\ Chain1(h1) = <<node>> \o Chain1(proto'.heap)]_vars

C17_Witness ==
    /\ lastOp = "pop"
    /\ ret.some
    /\ Len(Chain(Heap)) >= 2
    /\ ret.val # elem[head]

\* The nodes whose element references the live iterator has yielded.
YieldedNodes == {yielded[i].ref : i \in {j \in 1..Len(yielded) : yielded[j].some}}

\* C18: during a traversal with iter_mut each call to next first empties the
\* cursor slot and then installs the yielded node's successor: the cursor
\* never refers to a node whose element reference has been yielded, and no
\* node is yielded twice.
C18_TakeToAdvance ==
    pc = "iter_mut" =>
        /\ cursor \notin YieldedNodes
        /\ \A i, j \in 1..Len(yielded) :
             (i < j /\ yielded[i].some /\ yielded[j].some)
                => yielded[i].ref # yielded[j].ref
        /\ LET st == IterMut_next_steps(cursor, Heap)
               r == IterMut_next(cursor, Heap)
           IN  /\ st[1].cursor = Null
               /\ st[1].held = cursor
               /\ st[2].cursor = r.cursor
               /\ st[2].ret = r.ret
               /\ cursor # Null =>
                    /\ r.ret = SomeRef(cursor)
                    /\ r.cursor = next[cursor]
                    /\ r.cursor \notin YieldedNodes \cup {cursor}

C18_Witness ==
    /\ pc = "iter_mut"
    /\ lastOp = "iter_mut_next"
    /\ Len(yielded) = 2
    /\ yielded[2].some
    /\ cursor # Null

\* The live iterator has returned None.
Exhausted == \E i \in 1..Len(yielded) : ~yielded[i].some

IteratorNext == lastOp' \in {"into_iter_next", "iter_next", "iter_mut_next"}

\* C19: over a list of n elements each of the three iterators returns Some
\* at its first n calls of next and None at call n + 1, and once it has
\* returned None every later call returns None and changes neither the
\* iterator nor the list.
C19_StaysExhausted ==
    /\ [](pc \in {"into_iter", "iter", "iter_mut"} =>
            \A i \in 1..Len(yielded) :
                yielded[i].some <=> (i <= Len(snapNodes)))
    /\ [][(IteratorNext /\ Exhausted) =>
            /\ ret' = None
            /\ cursor' = cursor
            /\ Heap' = Heap
            /\ pc' = pc
            /\ Exhausted']_vars

C19_Witness ==
    /\ pc = "iter_mut"
    /\ lastOp = "iter_mut_next"
    /\ Len(snapNodes) >= 2
    /\ Len(yielded) = Len(snapNodes) + 2
    /\ ret = None

\* C20: pop_node leaves the list as pop would leave it (the head advanced to
\* the former head's next, or still empty) and returns, for a non-empty
\* list, one detached node holding the former head's element with an empty
\* next link, and None for an empty list; so do both the generic list and
\* the prototype.
C20_PopNode ==
    [][lastOp' = "pop_node" =>
        /\ LET q == pop(Heap)
           IN  /\ head' = q.heap.head
               /\ Chain(Heap') = Chain(q.heap)
               /\ ChainElems(Heap') = ChainElems(q.heap)
               /\ IF head = Null
                    THEN /\ detached' = Null
                         /\ ret' = None
                         /\ Heap' = Heap
                    ELSE /\ detached' # Null
                         /\ ret' = SomeRef(detached')
                         /\ alloc'[detached'] = "live"
                         /\ elem'[detached'] = elem[head]
                         /\ next'[detached'] = Null
                         /\ Owners(Heap', <<>>, detached') = 0
                         /\ alloc'[head] = "freed"
        /\ synced =>
             LET q1 == pop1(proto.heap)
                 h1 == proto'.heap
                 l1 == proto'.node
             IN  /\ h1.head = q1.heap.head
                 /\ Chain1(h1) = Chain1(q1.heap)
                 /\ ChainElems1(h1) = ChainElems1(q1.heap)
                 /\ IF proto.heap.head = Empty
                      THEN l1 = Empty /\ h1 = proto.heap
                      ELSE /\ l1.tag = "More"
                           /\ h1.alloc[l1.node] = "live"
                           /\ h1.elem[l1.node]
                                = proto.heap.elem[proto.heap.head.node]
                           /\ h1.next[l1.node] = Empty
                           /\ h1.head # l1
                           /\ \A m \in Nodes : h1.next[m] # l1]_vars

C20_Witness ==
    /\ lastOp = "pop_node"
    /\ synced
    /\ detached # Null
    /\ proto.node.tag = "More"
    /\ Len(Chain(Heap)) >= 1
    /\ elem[detached] # elem[head]

\* Called on an empty list, pop_node returns None and changes nothing.
C20_WitnessEmpty ==
    /\ lastOp = "pop_node"
    /\ detached = Null
    /\ \E n \in Nodes : alloc[n] = "freed"

====
